---- MODULE Spec2Model ----
(***************************************************************************)
(* Model of the TodoMCP example: the in-memory to-do store served by       *)
(* my-first-mcp-server/mcp-server.py and the stdio client session          *)
(* SimpleMCPClient of my-first-mcp-server/mcp-client.py.                   *)
(*                                                                         *)
(* SpecStore   : the server process; its handlers are called one at a time *)
(*               (single dispatch loop) with arbitrary arguments.          *)
(* SpecSession : one run of the client program (main --test or TodoCLI)    *)
(*               against whatever the child process puts on its stdout.    *)
(***************************************************************************)
EXTENDS Integers, Sequences, FiniteSets, TLC

\* ------------------------------------------------------------------ bounds
\* Number of distinct values uuid4() can return in a run (add_todo is
\* disabled once all of them were issued).
MaxTodos == 3
\* Number of requests one client session may start.
MaxCalls == 7

UUIDs == 1..MaxTodos
Titles == {"groceries", "dog"}
Times == {"t1"}
Names == {"kebede"}

VARIABLES
    \* ---- server process (mcp-server.py)
    todos,      \* the dict `todos`, in insertion order: <<[key, val]>>
    issued,     \* the values uuid4() has returned so far
    addLog,     \* history: <<[id, title]>> of the add_todo calls, in call order
    deleted,    \* history: the ids delete_todo has removed
    last,       \* the last handler call: [op, arg, ret]
    \* ---- client program (mcp-client.py)
    program,    \* "none", then "test" (main --test) or "cli" (TodoCLI.run)
    pc,         \* position of the client program
    process,    \* self.process: "None" or "Proc"
    child,      \* the spawned OS process: "none", "running", "exited", "terminated"
    message_id, \* self.message_id
    sent,       \* the request records written to the child's stdin: <<[id, method]>>
    nread,      \* number of response records read from the child's stdout
    nlines,     \* number of readline() calls that returned (a record or b"")
    started,    \* history: number of send_message calls started
    step,       \* main --test: index of the next statement of the test body
    connFailed, \* history: some call failed with a connection-level failure
    lastCall    \* the last finished send_message call

storeVars == <<todos, issued, addLog, deleted, last>>
sessionVars == <<program, pc, process, child, message_id, sent, nread, nlines,
                 started, step, connFailed, lastCall>>
vars == <<todos, issued, addLog, deleted, last, program, pc, process, child,
          message_id, sent, nread, nlines, started, step, connFailed, lastCall>>

\* ------------------------------------------------------------ Python dict
\* A dict keeps its keys in insertion order; d is a sequence of [key, val].
Keys(d) == {d[i].key : i \in DOMAIN d}

IndexOf(d, k) == CHOOSE i \in DOMAIN d : d[i].key = k

\* d[k] / d.get(k) for a key that is present
DictGet(d, k) == d[IndexOf(d, k)].val

\* Faulty variant of DictSet: the entry is always appended, as to a list
DictSet_append(d, k, v) == Append(d, [key |-> k, val |-> v])

\* d[k] = v: a new key goes last, an existing key keeps its place
DictSet(d, k, v) ==
    IF k \in Keys(d)
    THEN [d EXCEPT ![IndexOf(d, k)].val = v]
    ELSE Append(d, [key |-> k, val |-> v])

\* Faulty variant of DictDel: the last entry is moved into the place of the removed one
DictDel_swap(d, k) ==
    IF k \notin Keys(d) THEN d
    ELSE LET i == IndexOf(d, k)
             n == Len(d)
         IN IF i = n THEN SubSeq(d, 1, n - 1)
            ELSE SubSeq([d EXCEPT ![i] = d[n]], 1, n - 1)

\* del d[k]
DictDel(d, k) == SelectSeq(d, LAMBDA e : e.key # k)

\* ------------------------------------------------- server: mcp-server.py
\* The value stored under an id: {"title", "completed", "created_at"}
Info(title, completed, created_at) ==
    [title |-> title, completed |-> completed, created_at |-> created_at]

\* {"id": todo_id, **info}
WithId(todo_id, info) ==
    [id |-> todo_id, title |-> info.title, completed |-> info.completed,
     created_at |-> info.created_at]

\* What a tool returns: one of the four message formats, with the title and
\* the id the f-string puts into it ("" / 0 where the message has none).
Text(msg, title, todo_id) == [msg |-> msg, title |-> title, id |-> todo_id]

NotFoundMarker == [error |-> "Todo not found"]

\* Faulty variant of uuid4: an id is unique among the ids now in the store only
uuid4_unused_key == UUIDs \ Keys(todos)

\* uuid4(): the values a call may return. The library's contract is a value
\* no other call returns (122 random bits); which one is not determined. The
\* handlers use an id only through equality, so every run is a renaming of a
\* run that draws from the two lowest values not yet returned: the choice is
\* narrowed to those (ids still come in any relative order).
uuid4 ==
    LET unissued == UUIDs \ issued
    IN {u \in unissued : Cardinality({v \in unissued : v < u}) < 2}

\* datetime.utcnow().isoformat(): the wall clock, any value
utcnow == Times

\* todos.get(todo_id) is None (an Info is a non-empty dict and so truthy)
Missing(todo_id) == todo_id \notin Keys(todos)

\* list_todos' value on the store d
list_todos_value(d) == [i \in DOMAIN d |-> WithId(d[i].key, d[i].val)]

\* get_todo's value on the store d
get_todo_value(d, todo_id) ==
    IF todo_id \notin Keys(d) THEN NotFoundMarker
    ELSE WithId(todo_id, DictGet(d, todo_id))

add_todo(title) ==
    \E todo_id \in uuid4, now \in utcnow :
        /\ todos' = DictSet(todos, todo_id, Info(title, FALSE, now))
        /\ issued' = issued \cup {todo_id}
        /\ addLog' = Append(addLog, [id |-> todo_id, title |-> title])
        /\ last' = [op |-> "add_todo", arg |-> title,
                    ret |-> Text("added", title, todo_id)]
        /\ UNCHANGED deleted

\* Faulty variant of complete_todo: an id that is not in the store gets an entry
\* (todos.setdefault) instead of the "not found" return
complete_todo_upsert(todo_id) ==
    /\ IF Missing(todo_id)
       THEN /\ todos' = DictSet(todos, todo_id, Info("", TRUE, "t1"))
            /\ last' = [op |-> "complete_todo", arg |-> todo_id,
                        ret |-> Text("marked as completed", "", 0)]
       ELSE IF DictGet(todos, todo_id).completed
       THEN /\ last' = [op |-> "complete_todo", arg |-> todo_id,
                        ret |-> Text("Todo already completed.", "", 0)]
            /\ UNCHANGED todos
       ELSE /\ todos' = DictSet(todos, todo_id,
                            [DictGet(todos, todo_id) EXCEPT !.completed = TRUE])
            /\ last' = [op |-> "complete_todo", arg |-> todo_id,
                        ret |-> Text("marked as completed",
                                     DictGet(todos, todo_id).title, 0)]
    /\ UNCHANGED <<issued, addLog, deleted>>

\* Faulty variant of complete_todo: every todo with the title of the one looked
\* up is marked, not only the one with the id
complete_todo_same_title(todo_id) ==
    /\ IF Missing(todo_id)
       THEN /\ last' = [op |-> "complete_todo", arg |-> todo_id,
                        ret |-> Text("Todo not found.", "", 0)]
            /\ UNCHANGED todos
       ELSE IF DictGet(todos, todo_id).completed
       THEN /\ last' = [op |-> "complete_todo", arg |-> todo_id,
                        ret |-> Text("Todo already completed.", "", 0)]
            /\ UNCHANGED todos
       ELSE /\ todos' = [i \in DOMAIN todos |->
                            IF todos[i].val.title = DictGet(todos, todo_id).title
                            THEN [todos[i] EXCEPT !.val.completed = TRUE]
                            ELSE todos[i]]
            /\ last' = [op |-> "complete_todo", arg |-> todo_id,
                        ret |-> Text("marked as completed",
                                     DictGet(todos, todo_id).title, 0)]
    /\ UNCHANGED <<issued, addLog, deleted>>

\* Faulty variant of complete_todo: the flag is flipped, with no test for a todo that is
\* already completed
complete_todo_toggle(todo_id) ==
    /\ IF Missing(todo_id)
       THEN /\ last' = [op |-> "complete_todo", arg |-> todo_id,
                        ret |-> Text("Todo not found.", "", 0)]
            /\ UNCHANGED todos
       ELSE /\ todos' = DictSet(todos, todo_id,
                            [DictGet(todos, todo_id) EXCEPT
                                !.completed = ~DictGet(todos, todo_id).completed])
            /\ last' = [op |-> "complete_todo", arg |-> todo_id,
                        ret |-> Text("marked as completed",
                                     DictGet(todos, todo_id).title, 0)]
    /\ UNCHANGED <<issued, addLog, deleted>>

complete_todo(todo_id) ==
    /\ IF Missing(todo_id)
       THEN /\ last' = [op |-> "complete_todo", arg |-> todo_id,
                        ret |-> Text("Todo not found.", "", 0)]
            /\ UNCHANGED todos
       ELSE IF DictGet(todos, todo_id).completed
       THEN /\ last' = [op |-> "complete_todo", arg |-> todo_id,
                        ret |-> Text("Todo already completed.", "", 0)]
            /\ UNCHANGED todos
       ELSE /\ todos' = DictSet(todos, todo_id,
                            [DictGet(todos, todo_id) EXCEPT !.completed = TRUE])
            /\ last' = [op |-> "complete_todo", arg |-> todo_id,
                        ret |-> Text("marked as completed",
                                     DictGet(todos, todo_id).title, 0)]
    /\ UNCHANGED <<issued, addLog, deleted>>

\* Faulty variant of delete_todo: the deletion is reported but `del` is left out
delete_todo_keep(todo_id) ==
    /\ IF todo_id \in Keys(todos)
       THEN /\ deleted' = deleted \cup {todo_id}
            /\ last' = [op |-> "delete_todo", arg |-> todo_id,
                        ret |-> Text("deleted", DictGet(todos, todo_id).title, 0)]
            /\ UNCHANGED todos
       ELSE /\ last' = [op |-> "delete_todo", arg |-> todo_id,
                        ret |-> Text("Todo not found.", "", 0)]
            /\ UNCHANGED <<todos, deleted>>
    /\ UNCHANGED <<issued, addLog>>

delete_todo(todo_id) ==
    /\ IF todo_id \in Keys(todos)
       THEN /\ todos' = DictDel(todos, todo_id)
            /\ deleted' = deleted \cup {todo_id}
            /\ last' = [op |-> "delete_todo", arg |-> todo_id,
                        ret |-> Text("deleted", DictGet(todos, todo_id).title, 0)]
       ELSE /\ last' = [op |-> "delete_todo", arg |-> todo_id,
                        ret |-> Text("Todo not found.", "", 0)]
            /\ UNCHANGED <<todos, deleted>>
    /\ UNCHANGED <<issued, addLog>>

list_todos ==
    /\ last' = [op |-> "list_todos", arg |-> 0, ret |-> list_todos_value(todos)]
    /\ UNCHANGED <<todos, issued, addLog, deleted>>

\* Faulty variant of get_todo: the entry is taken out of the store (todos.pop)
get_todo_pop(todo_id) ==
    /\ last' = [op |-> "get_todo", arg |-> todo_id,
                ret |-> get_todo_value(todos, todo_id)]
    /\ todos' = DictDel(todos, todo_id)
    /\ UNCHANGED <<issued, addLog, deleted>>

get_todo(todo_id) ==
    /\ last' = [op |-> "get_todo", arg |-> todo_id,
                ret |-> get_todo_value(todos, todo_id)]
    /\ UNCHANGED <<todos, issued, addLog, deleted>>

greet(name) ==
    /\ last' = [op |-> "greet", arg |-> name, ret |-> [hello |-> name]]
    /\ UNCHANGED <<todos, issued, addLog, deleted>>

InitStore ==
    /\ todos = <<>>
    /\ issued = {}
    /\ addLog = <<>>
    /\ deleted = {}
    /\ last = [op |-> "none", arg |-> 0, ret |-> 0]

\* The todo_id a caller may pass: any id uuid4 can return, or a string that is
\* no such id (0, "not-a-real-id").
TodoIdArgs == UUIDs \cup {0}

AddTodo == (\E title \in Titles : add_todo(title)) /\ UNCHANGED sessionVars
CompleteTodo ==
    (\E todo_id \in TodoIdArgs : complete_todo(todo_id)) /\ UNCHANGED sessionVars
DeleteTodo ==
    (\E todo_id \in TodoIdArgs : delete_todo(todo_id)) /\ UNCHANGED sessionVars
ListTodos == list_todos /\ UNCHANGED sessionVars
GetTodo ==
    (\E todo_id \in TodoIdArgs : get_todo(todo_id)) /\ UNCHANGED sessionVars
Greet == (\E name \in Names : greet(name)) /\ UNCHANGED sessionVars

NextStore ==
    \/ AddTodo
    \/ CompleteTodo
    \/ DeleteTodo
    \/ ListTodos
    \/ GetTodo
    \/ Greet


\* ------------------------------------------------- client: mcp-client.py
\* One line read from the child's stdout. The fields of a JSON object are
\* sets: {} when the key is absent, {v} when it is present with value v.
Line(kind, id, result, error) ==
    [kind |-> kind, id |-> id, result |-> result, error |-> error]

\* readline() returned b"" (the stream is at end of file)
Eof == Line("eof", {}, {}, {})
\* a line json.loads rejects
Garbage == Line("garbage", {}, {}, {})
\* a line json.loads accepts that is no JSON object (a list, a number, null)
NotAnObject == Line("not_object", {}, {}, {})
\* Placeholder of lastCall.resp for a call that read no line
NoLine == Line("none", {}, {}, {})

Objects ==
    {Line("object", id, result, error) :
        id \in {{}} \cup {{n} : n \in 1..MaxCalls},
        result \in {{}, {"shaped"}, {"unshaped"}},
        error \in {{}, {"e1"}}}

\* What a running child may put on its stdout as the next line
Lines == Objects \cup {Garbage, NotAnObject}

Return(value) == [kind |-> "return", exc |-> "", payload |-> {}, value |-> value]
Raise(exc, payload) == [kind |-> "raise", exc |-> exc, payload |-> payload, value |-> ""]
NoOutcome == [kind |-> "none", exc |-> "", payload |-> {}, value |-> ""]

\* The methods of the requests the client builds, by client method
Methods == {"tools/call", "resources/read"}

\* The calls of the body of main --test, in order
TestScript ==
    <<"tools/call", "tools/call", "tools/call", "resources/read", "tools/call",
      "resources/read">>

\* Faulty variant of get_next_id: the increment is left out
get_next_id_stuck(mid) == mid

\* _get_next_id: the value of self.message_id after the call, which is also
\* the id returned
get_next_id(mid) == mid + 1

\* Faulty variant of send_message_outcome: a result that is present is returned before
\* the error key is looked at
send_message_outcome_result_first(resp) ==
    IF resp.kind = "eof" THEN Raise("No response from server", {})
    ELSE IF resp.kind = "garbage" THEN Raise("JSONDecodeError", {})
    ELSE IF resp.kind = "not_object" THEN Raise("TypeError", {})
    ELSE IF resp.result # {} THEN Return(CHOOSE v \in resp.result : TRUE)
    ELSE IF resp.error # {} THEN Raise("Server error", resp.error)
    ELSE Return("{}")

\* send_message from the line read on: what the call does with the line
send_message_outcome(resp) ==
    IF resp.kind = "eof" THEN Raise("No response from server", {})
    ELSE IF resp.kind = "garbage" THEN Raise("JSONDecodeError", {})
    ELSE IF resp.kind = "not_object" THEN Raise("TypeError", {})
    ELSE IF resp.error # {} THEN Raise("Server error", resp.error)
    ELSE IF resp.result = {} THEN Return("{}")
    ELSE Return(CHOOSE v \in resp.result : TRUE)

\* The client methods other than initialize index the result
\* (result["content"][0]["text"]): that raises unless the result has the shape
CallerRaises(method, outcome) ==
    \/ outcome.kind = "raise"
    \/ method # "initialize" /\ outcome.value # "shaped"

\* A failure of the connection, as opposed to a response of the server
ConnectionFailure(outcome) ==
    /\ outcome.kind = "raise"
    /\ outcome.exc \in {"No response from server", "JSONDecodeError", "BrokenPipeError"}

\* The call was answered with an error response of the server
ErrorResponse(call) ==
    call.resp.kind = "object" /\ call.resp.error # {}

\* stop_server: terminate() and wait() when self.process is set
stop_server_child ==
    IF process = "Proc" /\ child = "running" THEN "terminated" ELSE child

\* Faulty variant of AfterCall: TodoCLI.run has no `except Exception`, every
\* exception of the body ends the session
AfterCall_no_except(raised) ==
    IF pc \in {"spawned", "init_reading"}
    THEN /\ pc' = IF raised THEN "start_failed" ELSE "ready"
         /\ UNCHANGED <<child, step>>
    ELSE IF raised
    THEN /\ pc' = "closed"
         /\ child' = stop_server_child
         /\ UNCHANGED step
    ELSE /\ pc' = "ready"
         /\ step' = IF program = "test" THEN step + 1 ELSE step
         /\ UNCHANGED child

\* Where the client program goes when a call made at pc raised (raised = TRUE)
\* or returned, and what becomes of the child
AfterCall(raised) ==
    IF pc \in {"spawned", "init_reading"}
    THEN \* start_server re-raises, __aenter__ raises: __aexit__ does not run
         /\ pc' = IF raised THEN "start_failed" ELSE "ready"
         /\ UNCHANGED <<child, step>>
    ELSE IF raised /\ program = "test"
    THEN \* the exception leaves the async with of main: __aexit__ runs
         /\ pc' = "closed"
         /\ child' = stop_server_child
         /\ UNCHANGED step
    ELSE \* TodoCLI.run catches the exception and reads the next command
         /\ pc' = "ready"
         /\ step' = IF program = "test" THEN step + 1 ELSE step
         /\ UNCHANGED child

InitSession ==
    /\ program = "none"
    /\ pc = "new"
    /\ process = "None"
    /\ child = "none"
    /\ message_id = 0
    /\ sent = <<>>
    /\ nread = 0
    /\ nlines = 0
    /\ started = 0
    /\ step = 1
    /\ connFailed = FALSE
    /\ lastCall = [id |-> 0, method |-> "none", resp |-> NoLine,
                   outcome |-> NoOutcome, afterFail |-> FALSE,
                   afterError |-> FALSE]

\* Faulty variant of Spawn: start_server does not call initialize
Spawn_no_initialize ==
    /\ pc = "new"
    /\ program' \in {"test", "cli"}
    /\ pc' = "ready"
    /\ process' = "Proc"
    /\ child' = "running"
    /\ UNCHANGED <<message_id, sent, nread, nlines, started, step, connFailed,
                   lastCall, storeVars>>

\* start_server up to the call of initialize: create_subprocess_exec
Spawn ==
    /\ pc = "new"
    /\ program' \in {"test", "cli"}
    /\ \/ /\ pc' = "spawned"
          /\ process' = "Proc"
          /\ child' = "running"
       \/ \* create_subprocess_exec raises
          /\ pc' = "start_failed"
          /\ UNCHANGED <<process, child>>
    /\ UNCHANGED <<message_id, sent, nread, nlines, started, step, connFailed,
                   lastCall, storeVars>>

\* The method of the call the program makes next
NextMethods ==
    IF pc = "spawned" THEN {"initialize"}
    ELSE IF program = "test"
    THEN (IF step \in DOMAIN TestScript THEN {TestScript[step]} ELSE {})
    ELSE Methods

\* Faulty variant of SendWrite: the call does not wait for the response line
\* before the program goes on
SendWrite_pipelined(method) ==
    /\ pc \in {"spawned", "ready"}
    /\ method \in NextMethods
    /\ message_id < MaxCalls
    /\ message_id' = get_next_id(message_id)
    /\ sent' = Append(sent, [id |-> message_id', method |-> method])
    /\ pc' = "ready"
    /\ started' = started + 1
    /\ UNCHANGED <<program, process, child, step, connFailed, lastCall, nread,
                   nlines, storeVars>>

\* send_message up to its readline: take the next id, write the request
SendWrite(method) ==
    /\ pc \in {"spawned", "ready"}
    /\ method \in NextMethods
    /\ message_id < MaxCalls
    /\ message_id' = get_next_id(message_id)
    /\ \/ /\ sent' = Append(sent, [id |-> message_id', method |-> method])
          /\ pc' = IF pc = "spawned" THEN "init_reading" ELSE "reading"
          /\ UNCHANGED <<child, step, connFailed, lastCall>>
       \/ \* the child is gone and drain() raises
          /\ child = "exited"
          /\ lastCall' = [id |-> message_id', method |-> method, resp |-> NoLine,
                          outcome |-> Raise("BrokenPipeError", {}),
                          afterFail |-> connFailed,
                          afterError |-> ErrorResponse(lastCall)]
          /\ connFailed' = TRUE
          /\ AfterCall(TRUE)
          /\ UNCHANGED sent
    /\ started' = started + 1
    /\ UNCHANGED <<program, process, nread, nlines, storeVars>>

\* send_message from its readline on, and the client method that called it
SendRead(resp) ==
    /\ pc \in {"init_reading", "reading"}
    /\ resp \in (IF child = "running" THEN Lines ELSE {Eof})
    /\ LET req == sent[Len(sent)]
           outcome == send_message_outcome(resp)
       IN /\ lastCall' = [id |-> req.id, method |-> req.method, resp |-> resp,
                          outcome |-> outcome, afterFail |-> connFailed,
                          afterError |-> ErrorResponse(lastCall)]
          /\ connFailed' = (connFailed \/ ConnectionFailure(outcome))
          /\ AfterCall(CallerRaises(req.method, outcome))
    /\ nread' = IF resp = Eof THEN nread ELSE nread + 1
    /\ nlines' = nlines + 1
    /\ UNCHANGED <<program, process, message_id, sent, started, storeVars>>

\* main --test line 287: `if todos:` is false, complete_todo is not called
SkipComplete ==
    /\ program = "test"
    /\ pc = "ready"
    /\ step = 5
    /\ step' = step + 1
    /\ UNCHANGED <<program, pc, process, child, message_id, sent, nread, nlines,
                   started, connFailed, lastCall, storeVars>>

\* The body of the async with ends (quit, end of input, end of the test body,
\* an exception of the body): __aexit__ runs stop_server
ExitSession ==
    /\ pc = "ready"
    /\ pc' = "closed"
    /\ child' = stop_server_child
    /\ UNCHANGED <<program, process, message_id, sent, nread, nlines, started,
                   step, connFailed, lastCall, storeVars>>

\* The child process ends by itself
ChildExit ==
    /\ child = "running"
    /\ child' = "exited"
    /\ UNCHANGED <<program, pc, process, message_id, sent, nread, nlines,
                   started, step, connFailed, lastCall, storeVars>>

Write == \E method \in Methods \cup {"initialize"} : SendWrite(method)
Read == \E resp \in Lines \cup {Eof} : SendRead(resp)

NextSession ==
    \/ Spawn
    \/ Write
    \/ Read
    \/ SkipComplete
    \/ ExitSession
    \/ ChildExit

Init == InitStore /\ InitSession

SpecStore == Init /\ [][NextStore]_vars

SpecSession == Init /\ [][NextSession]_vars

Next == NextStore \/ NextSession

Spec == Init /\ [][Next]_vars

\* ================================================================ claims
\* ---------------------------------------------------------------- store

\* C1: the ids add_todo assigns are pairwise distinct over the whole run of the
\* server: an id that was assigned once is not assigned again, also after the
\* todo that held it was deleted.
C1_IdsNeverReused ==
    \A i, j \in DOMAIN addLog : i # j => addLog[i].id # addLog[j].id

\* An add_todo call made after another todo was deleted
C1_Witness ==
    /\ last.op = "add_todo"
    /\ Len(addLog) = 3
    /\ \E i \in 1..2 : addLog[i].id \in deleted
    /\ last.ret.id = addLog[3].id

\* The add_todo calls whose todo was not deleted, in call order
Surviving == SelectSeq(addLog, LAMBDA e : e.id \notin deleted)

\* C2: list_todos returns exactly the todos that were added and not deleted,
\* in the order of the add_todo calls (so a deletion does not reorder the
\* others, and after adds only the titles are the added titles in call order).
C2_ListIsSurvivingInAddOrder ==
    LET l == list_todos_value(todos)
    IN /\ Len(l) = Len(Surviving)
       /\ \A i \in DOMAIN l :
            /\ l[i].id = Surviving[i].id
            /\ l[i].title = Surviving[i].title

\* list_todos after three adds and the deletion of the second todo, with ids
\* that are not in ascending order
C2_Witness ==
    /\ last.op = "list_todos"
    /\ Len(addLog) = 3
    /\ deleted = {addLog[2].id}
    /\ Len(last.ret) = 2
    /\ last.ret[1].id > last.ret[2].id

\* C3: complete_todo on a todo that is not completed sets its completed flag
\* and reports the completion; complete_todo on a completed todo reports
\* "already completed" (a normal return value) and leaves the store as it was.
C3_CompleteOnceThenAlready ==
    [][(last'.op = "complete_todo" /\ last'.arg \in Keys(todos))
        => LET todo_id == last'.arg
               todo == DictGet(todos, todo_id)
           IN IF ~todo.completed
              THEN /\ todos' = DictSet(todos, todo_id,
                                       [todo EXCEPT !.completed = TRUE])
                   /\ last'.ret.msg = "marked as completed"
              ELSE /\ todos' = todos
                   /\ last'.ret.msg = "Todo already completed."]_vars

\* A second complete_todo on the same id
C3_Witness ==
    /\ last.op = "complete_todo"
    /\ last.ret.msg = "Todo already completed."
    /\ last.arg \in Keys(todos)
    /\ DictGet(todos, last.arg).completed

\* C4: once delete_todo has removed an id, get_todo of that id reports not
\* found and list_todos omits it, whatever is called afterwards; delete_todo
\* of an id that is not in the store returns "Todo not found." and changes
\* nothing.
C4_DeletedStaysGone ==
    [][/\ \A todo_id \in deleted' :
            get_todo_value(todos', todo_id) = NotFoundMarker
       /\ LET l == list_todos_value(todos')
          IN \A i \in DOMAIN l : l[i].id \notin deleted'
       /\ (last'.op = "delete_todo" /\ last'.arg \notin Keys(todos))
            => /\ last'.ret.msg = "Todo not found."
               /\ todos' = todos]_vars

\* A second delete_todo of a deleted id, after a later add_todo
C4_Witness ==
    /\ last.op = "delete_todo"
    /\ last.arg \in deleted
    /\ last.ret.msg = "Todo not found."
    /\ Len(addLog) = 3
    /\ addLog[1].id = last.arg
    /\ addLog[3].id \in Keys(todos)

\* -------------------------------------------------------------- session

\* C5: the ids of the requests written on the channel are strictly increasing
\* and the first one is 1.
C5_RequestIdsIncreaseFromOne ==
    /\ sent # <<>> => sent[1].id = 1
    /\ \A i, j \in DOMAIN sent : i < j => sent[i].id < sent[j].id

\* Three requests written, the last one after a call that failed
C5_Witness ==
    /\ Len(sent) >= 3
    /\ pc = "reading"
    /\ lastCall.outcome.kind = "raise"
    /\ lastCall.id = sent[Len(sent) - 1].id

\* C6: a response whose id differs from the id of the request is not returned
\* to the caller: the call fails.
C6_DesyncRejected ==
    (/\ lastCall.resp.kind = "object"
     /\ lastCall.resp.id # {}
     /\ lastCall.resp.id # {lastCall.id})
    => lastCall.outcome.kind = "raise"

\* C7: a response with an error field makes the call raise with the error
\* payload of the server; a result is returned only for a response without an
\* error field, and it is that response's result.
C7_ErrorResponseRaises ==
    /\ (lastCall.resp.kind = "object" /\ lastCall.resp.error # {})
       => /\ lastCall.outcome.kind = "raise"
          /\ lastCall.outcome.exc = "Server error"
          /\ lastCall.outcome.payload = lastCall.resp.error
    /\ lastCall.outcome.kind = "return"
       => /\ lastCall.resp.kind = "object"
          /\ lastCall.resp.error = {}
          /\ lastCall.resp.result # {} => lastCall.resp.result = {lastCall.outcome.value}

\* A response that carries both an error and a result
C7_Witness ==
    /\ lastCall.resp.kind = "object"
    /\ lastCall.resp.error # {}
    /\ lastCall.resp.result # {}
    /\ lastCall.method = "tools/call"
    /\ lastCall.outcome.kind = "raise"

\* C8: the first request written is initialize, with id 1, and a tools/call or
\* resources/read request is written only after a response (the one to
\* initialize) was read.
C8_InitializeFirst ==
    /\ sent # <<>> => sent[1].id = 1 /\ sent[1].method = "initialize"
    /\ \A i \in DOMAIN sent :
         sent[i].method # "initialize" => i > 1 /\ nread >= 1

\* A tools/call request in flight
C8_Witness ==
    /\ pc = "reading"
    /\ Len(sent) = 2
    /\ sent[2].method = "tools/call"

\* C9: on every exit path of the session the spawned child is no longer
\* running.
C9_ChildStoppedOnExit ==
    pc \in {"closed", "start_failed"} => child # "running"

\* C10: after a call failed with a connection-level failure (no response line,
\* an undecodable line, a broken pipe), no later call on the session is sent
\* and returns a result to its caller.
C10_NoResultAfterConnectionFailure ==
    ~(/\ lastCall.afterFail
      /\ lastCall.outcome.kind = "return"
      /\ ~CallerRaises(lastCall.method, lastCall.outcome))

\* C11: the session has at most one request outstanding: the requests written
\* are the readline calls that returned, plus one exactly while a call waits
\* for its response line; a call reads one line per request written and never
\* more records than requests.
C11_OneOutstandingRequest ==
    /\ Len(sent) = nlines + (IF pc \in {"init_reading", "reading"} THEN 1 ELSE 0)
    /\ nread <= nlines

\* The third request waits for its response, two responses were read
C11_Witness ==
    /\ pc = "reading"
    /\ Len(sent) = 3
    /\ nlines = 2
    /\ nread = 2

\* C13: a call answered with an error response raises to its caller and leaves
\* the session as it was: in the command loop the program is ready for the next
\* command with the child untouched, the next request written carries the next
\* id, and a call made after it returns a result when its own response has one.
C13_UsableAfterErrorResponse ==
    [][/\ (pc \in {"init_reading", "reading"} /\ pc' # pc /\ ErrorResponse(lastCall'))
          => /\ lastCall'.outcome.kind = "raise"
             /\ message_id' = message_id
             /\ (program = "cli" /\ pc = "reading")
                => (pc' = "ready" /\ child' = child /\ process' = process)
       /\ (ErrorResponse(lastCall) /\ sent' # sent)
          => sent'[Len(sent')].id = lastCall.id + 1
       /\ (lastCall' # lastCall /\ lastCall'.afterError
            /\ lastCall'.resp.kind = "object" /\ lastCall'.resp.error = {})
          => lastCall'.outcome.kind = "return"]_vars

\* A tools/call that returned its result right after a call that was answered
\* with an error response
C13_Witness ==
    /\ lastCall.afterError
    /\ lastCall.method = "tools/call"
    /\ lastCall.outcome = Return("shaped")
    /\ ~lastCall.afterFail
    /\ pc = "ready"

\* C17: a response object without an id, or with neither result nor error, is
\* rejected: the call raises and returns no result.
C17_IncompleteResponseRejected ==
    (/\ lastCall.resp.kind = "object"
     /\ \/ lastCall.resp.id = {}
        \/ lastCall.resp.result = {} /\ lastCall.resp.error = {})
    => lastCall.outcome.kind = "raise"

\* C18: the id counter equals the number of calls started, whatever their
\* outcome; no request id exceeds it, and a call in flight carries the current
\* counter value, which is greater than the id of every finished call.
C18_IdConsumedByEveryCall ==
    /\ message_id = started
    /\ lastCall.id <= message_id
    /\ \A i \in DOMAIN sent : sent[i].id <= message_id
    /\ pc \in {"init_reading", "reading"}
       => /\ sent[Len(sent)].id = message_id
          /\ lastCall.id < message_id

\* The third call is in flight after the second one failed
C18_Witness ==
    /\ pc = "reading"
    /\ started = 3
    /\ lastCall.id = 2
    /\ lastCall.outcome.kind = "raise"
    /\ sent[Len(sent)].id = 3

\* ------------------------------------------------------- store, continued

\* C12: get_todo, complete_todo and delete_todo of an id that is not in the
\* store return their "not found" value (a return value, the handler does not
\* raise) and leave the store as it was.
C12_NotFoundLeavesStore ==
    [][(last'.op \in {"get_todo", "complete_todo", "delete_todo"}
            /\ last'.arg \notin Keys(todos))
        => /\ todos' = todos
           /\ IF last'.op = "get_todo"
              THEN last'.ret = NotFoundMarker
              ELSE last'.ret.msg = "Todo not found."]_vars

\* get_todo of "not-a-real-id" on a store that holds two todos
C12_Witness ==
    /\ last.op = "get_todo"
    /\ last.arg = 0
    /\ last.ret = NotFoundMarker
    /\ Len(todos) = 2

\* C14: for as long as a todo exists, a completed flag that is set stays set,
\* title and created_at keep the values add_todo gave them, and a step that
\* changes the todo at all is complete_todo of its id.
C14_CompletedIsOneWay ==
    [][\A i \in DOMAIN todos :
        LET k == todos[i].key
            old == todos[i].val
        IN k \in Keys(todos')
           => LET new == DictGet(todos', k)
              IN /\ old.completed => new.completed
                 /\ new.title = old.title
                 /\ new.created_at = old.created_at
                 /\ new # old => (last'.op = "complete_todo" /\ last'.arg = k)]_vars

\* A completed todo is still in the store, completed, after a later add_todo
C14_Witness ==
    /\ last.op = "add_todo"
    /\ Len(todos) >= 2
    /\ todos[1].val.completed
    /\ todos[1].key # last.ret.id

\* C15: complete_todo leaves the order of the entries and every entry but the
\* one with its id as they were; delete_todo leaves every entry but the one
\* with its id in the store with its fields as they were.
C15_OnlyTheNamedEntry ==
    [][/\ last'.op = "complete_todo"
          => /\ Len(todos') = Len(todos)
             /\ \A i \in DOMAIN todos :
                  /\ todos'[i].key = todos[i].key
                  /\ todos[i].key # last'.arg => todos'[i] = todos[i]
       /\ last'.op = "delete_todo"
          => \A i \in DOMAIN todos :
                todos[i].key # last'.arg
                => /\ todos[i].key \in Keys(todos')
                   /\ DictGet(todos', todos[i].key) = todos[i].val]_vars

\* Two adds, the first completed, the second deleted: the completed one is left
C15_Witness ==
    /\ last.op = "delete_todo"
    /\ last.ret.msg = "deleted"
    /\ Len(addLog) = 2
    /\ addLog[2].id = last.arg
    /\ Len(todos) = 1
    /\ todos[1].key = addLog[1].id
    /\ todos[1].val.completed

\* C16: a read of todos://all, todo://{todo_id} or greeting://{name} leaves
\* the store as it was and returns the value the resource has on that store,
\* so a read repeated right away returns the same value.
C16_ReadsAreReadOnly ==
    [][last'.op \in {"list_todos", "get_todo", "greet"}
        => /\ todos' = todos
           /\ last'.op = "list_todos" => last'.ret = list_todos_value(todos')
           /\ last'.op = "get_todo"
              => last'.ret = get_todo_value(todos', last'.arg)
           /\ (last.op = last'.op /\ last.arg = last'.arg)
              => last'.ret = last.ret]_vars

\* get_todo of a completed todo that is in the store
C16_Witness ==
    /\ last.op = "get_todo"
    /\ last.arg \in Keys(todos)
    /\ last.ret = get_todo_value(todos, last.arg)
    /\ last.ret.completed

\* C19: the number of entries is the number of add_todo calls minus the number
\* of deletions delete_todo reported; add_todo adds one entry, a reported
\* deletion removes one, and complete_todo, the reads and a delete_todo that
\* reports "not found" leave the number as it was.
C19_EntryCount ==
    [][/\ Len(todos') = Len(addLog') - Cardinality(deleted')
       /\ (\/ last'.op \in {"complete_todo", "get_todo", "list_todos", "greet"}
           \/ last'.op = "delete_todo" /\ last'.ret.msg = "Todo not found.")
          => Len(todos') = Len(todos)
       /\ addLog' # addLog => Len(todos') = Len(todos) + 1
       /\ deleted' # deleted => Len(todos') = Len(todos) - 1]_vars

\* One todo left of three after two deletions and a delete_todo that found nothing
C19_Witness ==
    /\ last.op = "delete_todo"
    /\ last.ret.msg = "Todo not found."
    /\ Len(addLog) = 3
    /\ Cardinality(deleted) = 2
    /\ Len(todos) = 1

====
